---- MODULE Spec2Model ----
(***************************************************************************)
(* Model of blog/importing-eeg-data/importing-eeg-data.py: a straight-line *)
(* script that loads an EDF recording, renames its channels, builds the    *)
(* "easycap-M1" montage, drops "T9"/"T10", assigns the montage and applies *)
(* an average reference.                                                   *)
(*                                                                         *)
(* Channel labels are sequences of one-character strings, so that          *)
(* str.strip and str.lower are computed character by character.  Sample    *)
(* values are exact rationals data[k][t] / scale.                          *)
(***************************************************************************)
EXTENDS Integers, Sequences, FiniteSets, TLC

\* ------------------------------------------------------------------ bounds

MaxCh == 4
MaxLen == 4
NSamp == 2
MaxVal == 1
MaxRuns == 3

\* ------------------------------------------------------------- environment

VARIABLES edf, catalog, pc, calls, failed_at, ch_names, data, scale, pos,
          montage, passes, first

vars == <<edf, catalog, pc, calls, failed_at, ch_names, data, scale, pos,
          montage, passes, first>>

Range(s) == {s[i] : i \in 1..Len(s)}

\* Labels as they appear in the input file (EDF pads labels with dots).
L_T9 == <<"T", "9", ".", ".">>
L_T10 == <<"T", "1", "0", ".">>
L_Fp1 == <<"F", "p", "1", ".">>
L_Cz == <<"C", "z", ".", ".">>
L_Fc5 == <<"F", "c", "5", ".">>
L_Oz == <<".", "O", "z", ".">>
L_A1 == <<"A", ".", "1">>

LabelPool == {L_T9, L_T10, L_Fp1, L_Cz, L_Fc5, L_Oz, L_A1}

StripChars == {".", "a", "B"}

Strings(n) == UNION {[1..k -> StripChars] : k \in 0..n}

Injective(f) == \A i, j \in DOMAIN f : f[i] = f[j] => i = j

\* Channel lists of a file: labels are unique (the reader makes them so).
LabelLists ==
    {f \in UNION {[1..k -> LabelPool] : k \in 0..MaxCh} : Injective(f)}
        \cup {<<s>> : s \in Strings(MaxLen)}

DefaultRow(i) == [t \in 1..NSamp |-> i % (MaxVal + 1)]

Rows == [1..NSamp -> 0..MaxVal]

\* The rows of the two channels the script drops are fixed, the others vary.
DataRows(l) == IF l \in {L_T9, L_T10} THEN {[t \in 1..NSamp |-> MaxVal]} ELSE Rows

\* Channel lists whose sample data is enumerated exhaustively.
DataLists ==
    { <<L_Fp1, L_T9, L_Fc5, L_T10>>,
      <<L_T10, L_Oz, L_T9>>,
      <<L_T9, L_T10>>,
      <<L_Cz, L_Fp1>>,
      <<L_A1, L_T9, L_T10>> }

NoFile == [present |-> FALSE, labels |-> <<>>, data |-> <<>>]

EdfFiles ==
    {NoFile}
        \cup {[present |-> TRUE, labels |-> ls,
               data |-> [i \in 1..Len(ls) |-> DefaultRow(i)]] : ls \in LabelLists}
        \cup UNION {{[present |-> TRUE, labels |-> ls, data |-> d] :
                        d \in {f \in [1..Len(ls) -> Rows] :
                                  \A i \in 1..Len(ls) : f[i] \in DataRows(ls[i])}} :
                    ls \in DataLists}

\* --------------------------------------------------------- script literals

MontageName == "easycap-M1"

DropNames_only_T9 == {<<"T", "9">>}

DropNames == {<<"T", "9">>, <<"T", "1", "0">>}

match_case_default == TRUE

match_case == FALSE

Steps == <<"load", "rename", "make_montage", "drop", "set_montage", "reref">>

\* ------------------------------------------------------ lambda s: s.strip(".")

RECURSIVE LStripDots(_)
LStripDots(s) ==
    IF s # <<>> /\ Head(s) = "." THEN LStripDots(Tail(s)) ELSE s

RECURSIVE RStripDots(_)
RStripDots(s) ==
    IF s # <<>> /\ s[Len(s)] = "." THEN RStripDots(SubSeq(s, 1, Len(s) - 1)) ELSE s

StripDots_rstrip(s) == RStripDots(s)

StripDots_lstrip(s) == LStripDots(s)

StripDots(s) == RStripDots(LStripDots(s))

\* ------------------------------------------------ library primitives (mne)

\* rename_channels with a callable: the callable is applied to every name.
RenameChannels(names) == [i \in 1..Len(names) |-> StripDots(names[i])]

\* drop_channels: the names asked for that the recording does not have.
MissingChannels(names, drop) == drop \ Range(names)

RECURSIVE Kept(_, _, _)
Kept(names, drop, i) ==
    IF i > Len(names) THEN <<>>
    ELSE (IF names[i] \in drop THEN <<>> ELSE <<i>>) \o Kept(names, drop, i + 1)

Pick(seq, idx) == [k \in 1..Len(idx) |-> seq[idx[k]]]

\* str.lower on the characters the labels use.
UpperToLower ==
    [c \in {"T", "F", "C", "O", "A", "B"} |->
        CASE c = "T" -> "t" [] c = "F" -> "f" [] c = "C" -> "c"
          [] c = "O" -> "o" [] c = "A" -> "a" [] c = "B" -> "b"]

Lower(s) ==
    [i \in 1..Len(s) |-> IF s[i] \in DOMAIN UpperToLower THEN UpperToLower[s[i]] ELSE s[i]]

MatchKey(s, mc) == IF mc THEN s ELSE Lower(s)

NoPos == <<>>

\* The catalog's "easycap-M1" layout: label -> 3D position.  It has no T9/T10.
EasycapM1 ==
    (<<"F", "p", "1">> :> <<-3, 9, 0>>) @@ (<<"C", "z">> :> <<0, 0, 9>>)
        @@ (<<"F", "C", "5">> :> <<-7, 3, 4>>) @@ (<<"O", "z">> :> <<0, -9, 1>>)

EmptyMontage == [m \in {} |-> NoPos]

Matches(m, name, mc) == {l \in DOMAIN m : MatchKey(l, mc) = MatchKey(name, mc)}

Unmatched(m, names, mc) == {i \in 1..Len(names) : Matches(m, names[i], mc) = {}}

PosOf(m, name, mc) == m[CHOOSE l \in Matches(m, name, mc) : TRUE]

RECURSIVE ColSum(_, _, _)
ColSum(d, t, k) == IF k = 0 THEN 0 ELSE d[k][t] + ColSum(d, t, k - 1)

\* x - mean over n channels, as a numerator over the denominator n * scale.
AverageRef(d) ==
    [k \in 1..Len(d) |-> [t \in 1..NSamp |-> Len(d) * d[k][t] - ColSum(d, t, Len(d))]]

\* ---------------------------------------------------------------- actions

Init ==
    /\ edf \in EdfFiles
    /\ catalog \in {{"standard_1020"}, {"standard_1020", "easycap-M1"}}
    /\ pc = "load"
    /\ calls = <<>>
    /\ failed_at = "none"
    /\ ch_names = <<>>
    /\ data = <<>>
    /\ scale = 1
    /\ pos = <<>>
    /\ montage = EmptyMontage
    /\ passes = <<"fresh">>
    /\ first = <<"none", <<>>, <<>>, 1, <<>>>>

Env == <<edf, catalog, passes, first>>

Raise(step) ==
    /\ pc' = "failed"
    /\ failed_at' = step
    /\ calls' = Append(calls, step)
    /\ UNCHANGED <<ch_names, data, scale, pos, montage, Env>>

\* raw = mne.io.read_raw_edf("S001R04.edf", preload=True)
Load ==
    /\ pc = "load"
    /\ edf.present
    /\ ch_names' = edf.labels
    /\ data' = edf.data
    /\ scale' = 1
    /\ pos' = [i \in 1..Len(edf.labels) |-> NoPos]
    /\ pc' = "rename"
    /\ calls' = Append(calls, "load")
    /\ UNCHANGED <<failed_at, montage, Env>>

LoadFail ==
    /\ pc = "load"
    /\ ~edf.present
    /\ Raise("load")

\* raw.rename_channels(lambda s: s.strip("."))
Rename ==
    /\ pc = "rename"
    /\ ch_names' = RenameChannels(ch_names)
    /\ pc' = "make_montage"
    /\ calls' = Append(calls, "rename")
    /\ UNCHANGED <<failed_at, data, scale, pos, montage, Env>>

\* montage = mne.channels.make_standard_montage("easycap-M1")
MakeMontage ==
    /\ pc = "make_montage"
    /\ MontageName \in catalog
    /\ montage' = EasycapM1
    /\ pc' = "drop"
    /\ calls' = Append(calls, "make_montage")
    /\ UNCHANGED <<failed_at, ch_names, data, scale, pos, Env>>

MakeMontageFail ==
    /\ pc = "make_montage"
    /\ MontageName \notin catalog
    /\ Raise("make_montage")

Drop_ignore_missing ==
    /\ pc = "drop"
    /\ LET idx == Kept(ch_names, DropNames, 1)
       IN  /\ ch_names' = Pick(ch_names, idx)
           /\ data' = Pick(data, idx)
           /\ pos' = Pick(pos, idx)
    /\ pc' = "set_montage"
    /\ calls' = Append(calls, "drop")
    /\ UNCHANGED <<failed_at, scale, montage, Env>>

Drop_misaligned ==
    /\ pc = "drop"
    /\ MissingChannels(ch_names, DropNames) = {}
    /\ LET idx == Kept(ch_names, DropNames, 1)
       IN  /\ ch_names' = Pick(ch_names, idx)
           /\ data' = SubSeq(data, 1, Len(idx))
           /\ pos' = Pick(pos, idx)
    /\ pc' = "set_montage"
    /\ calls' = Append(calls, "drop")
    /\ UNCHANGED <<failed_at, scale, montage, Env>>

Drop_skips_montage ==
    /\ pc = "drop"
    /\ MissingChannels(ch_names, DropNames) = {}
    /\ LET idx == Kept(ch_names, DropNames, 1)
       IN  /\ ch_names' = Pick(ch_names, idx)
           /\ data' = Pick(data, idx)
           /\ pos' = Pick(pos, idx)
    /\ pc' = "reref"
    /\ calls' = Append(calls, "drop")
    /\ UNCHANGED <<failed_at, scale, montage, Env>>

\* raw.drop_channels(["T9", "T10"])
Drop ==
    /\ pc = "drop"
    /\ MissingChannels(ch_names, DropNames) = {}
    /\ LET idx == Kept(ch_names, DropNames, 1)
       IN  /\ ch_names' = Pick(ch_names, idx)
           /\ data' = Pick(data, idx)
           /\ pos' = Pick(pos, idx)
    /\ pc' = "set_montage"
    /\ calls' = Append(calls, "drop")
    /\ UNCHANGED <<failed_at, scale, montage, Env>>

DropFail_swallowed ==
    /\ pc = "drop"
    /\ MissingChannels(ch_names, DropNames) # {}
    /\ pc' = "set_montage"
    /\ calls' = Append(calls, "drop")
    /\ failed_at' = "drop"
    /\ UNCHANGED <<ch_names, data, scale, pos, montage, Env>>

DropFail ==
    /\ pc = "drop"
    /\ MissingChannels(ch_names, DropNames) # {}
    /\ Raise("drop")

SetMontage_on_missing_ignore ==
    /\ pc = "set_montage"
    /\ pos' = [i \in 1..Len(ch_names) |->
                 IF i \in Unmatched(montage, ch_names, match_case) THEN NoPos
                 ELSE PosOf(montage, ch_names[i], match_case)]
    /\ pc' = "reref"
    /\ calls' = Append(calls, "set_montage")
    /\ UNCHANGED <<failed_at, ch_names, data, scale, montage, Env>>

\* raw.set_montage(montage, match_case=False)
SetMontage ==
    /\ pc = "set_montage"
    /\ Unmatched(montage, ch_names, match_case) = {}
    /\ pos' = [i \in 1..Len(ch_names) |-> PosOf(montage, ch_names[i], match_case)]
    /\ pc' = "reref"
    /\ calls' = Append(calls, "set_montage")
    /\ UNCHANGED <<failed_at, ch_names, data, scale, montage, Env>>

SetMontageFail ==
    /\ pc = "set_montage"
    /\ Unmatched(montage, ch_names, match_case) # {}
    /\ Raise("set_montage")

Reref_as_projection ==
    /\ pc = "reref"
    /\ Len(ch_names) > 0
    /\ pc' = "done"
    /\ calls' = Append(calls, "reref")
    /\ UNCHANGED <<failed_at, ch_names, data, scale, pos, montage, Env>>

\* raw.set_eeg_reference("average")
Reref ==
    /\ pc = "reref"
    /\ Len(ch_names) > 0
    /\ data' = AverageRef(data)
    /\ scale' = Len(data) * scale
    /\ pc' = "done"
    /\ calls' = Append(calls, "reref")
    /\ UNCHANGED <<failed_at, ch_names, pos, montage, Env>>

RerefFail ==
    /\ pc = "reref"
    /\ Len(ch_names) = 0
    /\ Raise("reref")

Next ==
    \/ Load
    \/ LoadFail
    \/ Rename
    \/ MakeMontage
    \/ MakeMontageFail
    \/ Drop
    \/ DropFail
    \/ SetMontage
    \/ SetMontageFail
    \/ Reref
    \/ RerefFail

Spec == Init /\ [][Next]_vars

\* ------------------------------------------------ running the script again

Succeeded(step) ==
    /\ step \in Range(calls)
    /\ failed_at # step

Final == <<pc, ch_names, data, scale, pos>>

\* A second execution of the script: a new process, a fresh load of the file.
Restart ==
    /\ pc \in {"done", "failed"}
    /\ Len(passes) < MaxRuns
    /\ passes' = Append(passes, "fresh")
    /\ first' = IF Len(passes) = 1 THEN Final ELSE first
    /\ pc' = "load"
    /\ calls' = <<>>
    /\ failed_at' = "none"
    /\ ch_names' = <<>>
    /\ data' = <<>>
    /\ scale' = 1
    /\ pos' = <<>>
    /\ montage' = EmptyMontage
    /\ UNCHANGED <<edf, catalog>>

\* The statements after the load, applied again to the recording they mutated.
Reapply ==
    /\ pc \in {"done", "failed"}
    /\ Succeeded("drop")
    /\ Len(passes) < MaxRuns
    /\ passes' = Append(passes, "reapply")
    /\ first' = IF Len(passes) = 1 THEN Final ELSE first
    /\ pc' = "rename"
    /\ calls' = <<>>
    /\ failed_at' = "none"
    /\ UNCHANGED <<edf, catalog, ch_names, data, scale, pos, montage>>

NextTwice ==
    \/ Next
    \/ Restart
    \/ Reapply

SpecTwice == Init /\ [][NextTwice]_vars

\* ------------------------------------------------------------------ claims

T9 == <<"T", "9">>

T10 == <<"T", "1", "0">>

EndsWithDot(s) == s # <<>> /\ s[Len(s)] = "."

StartsWithDot(s) == s # <<>> /\ s[1] = "."

\* While the recording still has the channels of the file, in the file's order.
RenamedNotDropped == Succeeded("rename") /\ ~Succeeded("drop")

\* C1: after the rename step no channel label of the recording ends with ".".
C1_NoTrailingDot ==
    Succeeded("rename") => \A i \in 1..Len(ch_names) : ~EndsWithDot(ch_names[i])

C1_Witness ==
    /\ pc = "make_montage"
    /\ \E i \in 1..Len(edf.labels) : EndsWithDot(edf.labels[i])

\* C2: after a successful drop the recording has neither "T9" nor "T10", it has
\* exactly two channels fewer than after the rename, and every other channel
\* of the renamed recording is still present.
C2_DropRemovesExactlyTwo ==
    Succeeded("drop") =>
        /\ T9 \notin Range(ch_names)
        /\ T10 \notin Range(ch_names)
        /\ Len(ch_names) = Len(edf.labels) - 2
        /\ \A i \in 1..Len(edf.labels) :
              LET r == RStripDots(LStripDots(edf.labels[i]))
              IN  r \notin {T9, T10} => r \in Range(ch_names)

C2_Witness ==
    /\ pc = "set_montage"
    /\ Len(edf.labels) = 4
    /\ Len(ch_names) = 2

\* C3: after a successful montage assignment every remaining channel has a
\* position, and it is the position the "easycap-M1" layout gives its label.
C3_EveryChannelHasPosition ==
    Succeeded("set_montage") =>
        \A i \in 1..Len(ch_names) :
            /\ pos[i] # NoPos
            /\ \E l \in DOMAIN EasycapM1 :
                  Lower(l) = Lower(ch_names[i]) /\ pos[i] = EasycapM1[l]

C3_Witness ==
    /\ pc = "reref"
    /\ Len(ch_names) >= 2
    /\ \A i \in 1..Len(ch_names) : pos[i] # NoPos

\* C4: after the re-reference step the values of all remaining channels sum to
\* zero at every sample index (so their mean is zero), and the step replaced
\* each value by that value minus the mean across the channels at that index.
C4_MeanZero ==
    /\ [](pc = "done" =>
            \A t \in 1..NSamp : ColSum(data, t, Len(data)) = 0)
    /\ [][pc = "reref" /\ pc' = "done" =>
            /\ scale' = Len(data) * scale
            /\ Len(data') = Len(data)
            /\ \A k \in 1..Len(data) : \A t \in 1..NSamp :
                  data'[k][t] = Len(data) * data[k][t] - ColSum(data, t, Len(data))]_vars

C4_Witness ==
    /\ pc = "done"
    /\ Len(data) >= 2
    /\ \E k \in 1..Len(data) : \E t \in 1..NSamp : data[k][t] # 0

\* C5: the drop step fails whenever "T9" or "T10" is absent; applying the
\* statements again to the recording they already mutated fails at the drop
\* call; a run from a fresh load of the same input ends in the same recording
\* as the first run.
C5_DropFailsWhenAbsent ==
    /\ [][pc = "drop" /\ (T9 \notin Range(ch_names) \/ T10 \notin Range(ch_names)) =>
            pc' = "failed" /\ failed_at' = "drop" /\ ch_names' = ch_names]_vars
    /\ [](passes[Len(passes)] = "reapply" =>
            /\ pc \in {"rename", "make_montage", "drop", "failed"}
            /\ pc = "failed" => failed_at = "drop")
    /\ [](Len(passes) > 1 /\ passes[Len(passes)] = "fresh" /\ pc \in {"done", "failed"} =>
            Final = first)

C5_Witness ==
    /\ passes = <<"fresh", "fresh", "reapply">>
    /\ first[1] = "done"
    /\ pc = "failed"
    /\ failed_at = "drop"

\* C6: a failure is fatal: the failed step is the last call made, it was made
\* once, the script is in the failed state and not the completed one, and no
\* further call follows.
C6_FailureIsFatal ==
    /\ [](failed_at # "none" =>
            /\ pc = "failed"
            /\ calls # <<>>
            /\ calls[Len(calls)] = failed_at
            /\ \A i \in 1..(Len(calls) - 1) : calls[i] # failed_at)
    /\ [](pc = "failed" => failed_at # "none")
    /\ [](pc = "done" => failed_at = "none")
    /\ [][failed_at # "none" => calls' = calls /\ pc' = pc /\ failed_at' = failed_at]_vars
    /\ [][pc # "failed" /\ pc' = "failed" =>
            UNCHANGED <<ch_names, data, scale, pos, montage>>]_vars

C6_Witness ==
    /\ pc = "failed"
    /\ failed_at = "set_montage"
    /\ calls = SubSeq(Steps, 1, 5)

\* C7: the calls made are always an initial part of load, rename, construct
\* montage, drop, assign montage, re-reference; "T9" and "T10" are gone when
\* the montage is assigned, and the montage is assigned before the re-reference.
C7_FixedOrder ==
    /\ Len(calls) <= Len(Steps)
    /\ calls = SubSeq(Steps, 1, Len(calls))
    /\ pc \notin {"done", "failed"} => pc = Steps[Len(calls) + 1]
    /\ pc = "done" => calls = Steps
    /\ "set_montage" \in Range(calls) =>
          T9 \notin Range(ch_names) /\ T10 \notin Range(ch_names)
    /\ "reref" \in Range(calls) =>
          \A i \in 1..Len(ch_names) : pos[i] # NoPos

C7_Witness ==
    /\ pc = "done"
    /\ calls = Steps
    /\ Len(ch_names) >= 2

IsStripOf(s, r) ==
    \E i, j \in 0..Len(s) :
        /\ i + j <= Len(s)
        /\ r = SubSeq(s, i + 1, Len(s) - j)
        /\ \A k \in 1..i : s[k] = "."
        /\ \A k \in (Len(s) - j + 1)..Len(s) : s[k] = "."
        /\ ~StartsWithDot(r)
        /\ ~EndsWithDot(r)

IsRStripOf(s, r) ==
    \E j \in 0..Len(s) :
        /\ r = SubSeq(s, 1, Len(s) - j)
        /\ \A k \in (Len(s) - j + 1)..Len(s) : s[k] = "."
        /\ ~EndsWithDot(r)

\* C8 (as amended): the rename step maps every channel label to that label
\* with its leading and its trailing "." characters stripped and nothing else
\* changed (interior characters are kept), label by label.
C8_StripsBothEnds ==
    RenamedNotDropped =>
        /\ Len(ch_names) = Len(edf.labels)
        /\ \A i \in 1..Len(ch_names) : IsStripOf(edf.labels[i], ch_names[i])

\* C8 as stated: the rename step strips only trailing "." characters and
\* keeps leading characters.
C8_StripsTrailingOnly ==
    RenamedNotDropped =>
        /\ Len(ch_names) = Len(edf.labels)
        /\ \A i \in 1..Len(ch_names) : IsRStripOf(edf.labels[i], ch_names[i])

C8_Witness ==
    /\ pc = "make_montage"
    /\ \E i \in 1..Len(edf.labels) :
          /\ StartsWithDot(edf.labels[i])
          /\ EndsWithDot(edf.labels[i])
          /\ ch_names[i] # <<>>
          /\ ch_names[i] # edf.labels[i]

AllMatchIgnoringCase ==
    \A i \in 1..Len(ch_names) : \E l \in DOMAIN montage : Lower(l) = Lower(ch_names[i])

\* C9: montage assignment matches labels ignoring letter case: a channel whose
\* label equals a montage label up to case gets that label's position, and
\* the step fails without assigning anything when some channel matches no
\* montage label even ignoring case.
C9_CaseInsensitiveMatch ==
    /\ [](Succeeded("set_montage") =>
            \A i \in 1..Len(ch_names) : \A l \in DOMAIN montage :
                Lower(l) = Lower(ch_names[i]) => pos[i] = montage[l])
    /\ [][pc = "set_montage" /\ AllMatchIgnoringCase => pc' = "reref"]_vars
    /\ [][pc = "set_montage" /\ ~AllMatchIgnoringCase =>
            pc' = "failed" /\ failed_at' = "set_montage" /\ pos' = pos]_vars

C9_Witness ==
    /\ Succeeded("set_montage")
    /\ \E i \in 1..Len(ch_names) :
          /\ ch_names[i] = <<"F", "c", "5">>
          /\ pos[i] = EasycapM1[<<"F", "C", "5">>]

\* C10: until the re-reference step has run, every channel of the recording
\* has the samples that were loaded for it; before the drop the channels are
\* those of the file, in the file's order.
C10_SamplesUntouchedBeforeReref ==
    Succeeded("load") /\ ~Succeeded("reref") =>
        /\ scale = 1
        /\ Len(data) = Len(ch_names)
        /\ Len(pos) = Len(ch_names)
        /\ ~Succeeded("drop") =>
              /\ data = edf.data
              /\ Len(ch_names) = Len(edf.labels)
              /\ \A i \in 1..Len(ch_names) :
                    ch_names[i] = edf.labels[i] \/ IsStripOf(edf.labels[i], ch_names[i])
        /\ \A k \in 1..Len(ch_names) :
              \E i \in 1..Len(edf.labels) :
                  /\ ch_names[k] = edf.labels[i] \/ IsStripOf(edf.labels[i], ch_names[k])
                  /\ data[k] = edf.data[i]

C10_Witness ==
    /\ pc = "reref"
    /\ Len(data) = 2
    /\ data[1] # data[2]
    /\ \A i \in 1..Len(pos) : pos[i] # NoPos

====
